---- MODULE Spec2Model ----
(***************************************************************************)
(* Sigmoid flash-attention layers (flash_sigmoid_attention.py).            *)
(*                                                                         *)
(* Numbers.  Activations are integers.  The factor head_dim^(-0.25) is     *)
(* kept exactly: a tensor carries a scale exponent sexp, counted in        *)
(* quarter powers of head_dim, so that an element m of a tensor with       *)
(* exponent e stands for m * head_dim^(e/4).  Attention weights are kept   *)
(* as formal terms sigmoid(logit): a kernel output element is a formal     *)
(* sum  SUM_j c_j * sigmoid(logit_j)  with integer coefficients, held as   *)
(* a function from logits to non-zero coefficients.  Equal formal sums     *)
(* denote equal real numbers.                                              *)
(***************************************************************************)
EXTENDS Integers, Sequences, FiniteSets, TLC

None == "None"

\* alibi_slopes=None
NoSlopes == <<>>

\* ---------------------------------------------------------------- bounds
MaxDim == 4
MaxHeads == 2
MaxSeq == 2
MaxHeadDim == 2

\* ------------------------------------------------------ integer helpers
RECURSIVE SumSeq(_)
SumSeq(s) == IF s = <<>> THEN 0 ELSE Head(s) + SumSeq(Tail(s))

Abs(n) == IF n < 0 THEN -n ELSE n

Sgn(n) == IF n > 0 THEN 1 ELSE IF n < 0 THEN -1 ELSE 0

Dot(a, b) == SumSeq([d \in 1..Len(a) |-> a[d] * b[d]])

\* ---------------------------------------------------------- formal sums
FZero == <<>>

FCoef(f, key) == IF key \in DOMAIN f THEN f[key] ELSE 0

FAdd(f, g) ==
  LET D == (DOMAIN f) \cup (DOMAIN g)
  IN  [key \in {x \in D : FCoef(f, x) + FCoef(g, x) # 0} |-> FCoef(f, key) + FCoef(g, key)]

FScale(c, f) == IF c = 0 THEN FZero ELSE [key \in DOMAIN f |-> c * f[key]]

FTerm(c, key) == IF c = 0 THEN FZero ELSE [x \in {key} |-> c]

RECURSIVE FSum(_)
FSum(s) == IF s = <<>> THEN FZero ELSE FAdd(Head(s), FSum(Tail(s)))

\* -------------------------------------------------------------- tensors
\* A tensor: shape (a sequence of sizes), dtype, scale exponent, data
\* (sequences nested along the shape).  An error value is a record with
\* the single field err.
IsErr(r) == "err" \in DOMAIN r

Err(name) == [err |-> name]

Tensor(shape, dtype, sexp, data) ==
  [shape |-> shape, dtype |-> dtype, sexp |-> sexp, data |-> data]

Size(t, axis) == IF axis < 0 THEN t.shape[Len(t.shape) + 1 + axis] ELSE t.shape[axis + 1]

\* Apply F to every innermost vector of a (B, N, H, hd) tensor's data.
MapVec(data, F(_, _)) ==
  [b \in DOMAIN data |-> [i \in DOMAIN data[b] |-> [h \in DOMAIN data[b][i] |->
      F(data[b][i][h], i)]]]

\* ------------------------------------------------ which_linear (nn.Linear)
\* The learned weights: fixed small integers, one matrix per projection.
Weight(seed, o, c) == ((seed + o * (c + 2) + 3 * c * c) % 7) - 3

QkvSeed == 0
QSeed == 1
KvSeed == 2
ProjSeed == 1

\* y = x W^T on the last axis of a (B, N, in) tensor; bias=False.
Linear(t, in_features, out_features, seed) ==
  IF Size(t, -1) # in_features THEN Err("ShapeMismatch")
  ELSE Tensor(<<t.shape[1], t.shape[2], out_features>>, t.dtype, t.sexp,
         [b \in DOMAIN t.data |-> [i \in DOMAIN t.data[b] |-> [o \in 1..out_features |->
            SumSeq([c \in 1..in_features |-> Weight(seed, o, c) * t.data[b][i][c]])]]])

\* The same map on a tensor of formal sums (the output projection).
LinearF(t, in_features, out_features, seed) ==
  IF Size(t, -1) # in_features THEN Err("ShapeMismatch")
  ELSE Tensor(<<t.shape[1], t.shape[2], out_features>>, t.dtype, t.sexp,
         [b \in DOMAIN t.data |-> [i \in DOMAIN t.data[b] |-> [o \in 1..out_features |->
            FSum([c \in 1..in_features |-> FScale(Weight(seed, o, c), t.data[b][i][c])])]]])

\* reshape(B, N, parts, H, hd): the packed (B, N, parts, H, hd) tensor.
Reshape5(t, parts, H, hd) ==
  IF Size(t, -1) # parts * H * hd THEN Err("ShapeMismatch")
  ELSE Tensor(<<t.shape[1], t.shape[2], parts, H, hd>>, t.dtype, [s \in 1..parts |-> t.sexp],
         [b \in DOMAIN t.data |-> [i \in DOMAIN t.data[b] |-> [s \in 1..parts |->
            [h \in 1..H |-> [d \in 1..hd |-> t.data[b][i][((s - 1) * H + (h - 1)) * hd + d]]]]]])

\* unbind(2)[s]: slice s of a packed tensor, a (B, N, H, hd) tensor.
Unbind(p, s) ==
  Tensor(<<p.shape[1], p.shape[2], p.shape[4], p.shape[5]>>, p.dtype, p.sexp[s],
         [b \in DOMAIN p.data |-> [i \in DOMAIN p.data[b] |-> p.data[b][i][s]]])

\* reshape(B, N, H, hd) of a (B, N, H*hd) tensor.
Reshape4(t, H, hd) ==
  LET p == Reshape5(t, 1, H, hd) IN IF IsErr(p) THEN p ELSE Unbind(p, 1)

\* flatten(2): (B, N, H, hd) -> (B, N, H*hd).
Flatten2(t) ==
  LET H == t.shape[3]
      hd == t.shape[4]
  IN  Tensor(<<t.shape[1], t.shape[2], H * hd>>, t.dtype, t.sexp,
         [b \in DOMAIN t.data |-> [i \in DOMAIN t.data[b] |-> [c \in 1..(H * hd) |->
            t.data[b][i][((c - 1) \div hd) + 1][((c - 1) % hd) + 1]]]])

\* ------------------------------------------- norm_layer (nn.LayerNorm)
\* LayerNorm over the last axis with unit weight and zero bias, on the
\* integer grid: each element becomes the sign of its deviation from the
\* mean (exact for head_dim = 2).  Under autocast the result is float32.
LayerNormVec(vec, i) == [d \in DOMAIN vec |-> Sgn(Len(vec) * vec[d] - SumSeq(vec))]

LayerNorm(t) == Tensor(t.shape, "float32", t.sexp, MapVec(t.data, LayerNormVec))

Identity(t) == t

\* -------------------------------------------- Tensor.to(dtype)
RoundTo(dtype, m) == IF dtype = "float16" /\ Abs(m) > 2048 THEN 2 * (m \div 2) ELSE m

To(t, dtype) ==
  IF t.dtype = dtype THEN t
  ELSE Tensor(t.shape, dtype, t.sexp,
         [b \in DOMAIN t.data |-> [i \in DOMAIN t.data[b] |-> [h \in DOMAIN t.data[b][i] |->
            [d \in DOMAIN t.data[b][i][h] |-> RoundTo(dtype, t.data[b][i][h][d])]]]])

\* --------------------------------------- qk_transform (apply_rotary_emb)
\* Rotary embedding with angle pi/2 per position: the pair (x, y) at
\* position pos is turned pos quarter turns; an unpaired last element is
\* left alone.
RotVec(vec, pos) ==
  LET r == pos % 4
      n == Len(vec)
      Mate(d) == IF d % 2 = 1 THEN d + 1 ELSE d - 1
  IN  [d \in 1..n |->
        IF Mate(d) > n THEN vec[d]
        ELSE IF r = 0 THEN vec[d]
        ELSE IF r = 2 THEN -vec[d]
        ELSE IF (r = 1) = (d % 2 = 1) THEN -vec[Mate(d)]
        ELSE vec[Mate(d)]]

Rotate(t, offset) ==
  Tensor(t.shape, t.dtype, t.sexp,
         [b \in DOMAIN t.data |-> [i \in DOMAIN t.data[b] |-> [h \in DOMAIN t.data[b][i] |->
            RotVec(t.data[b][i][h], i - 1 + offset)]]])

apply_rotary_emb(q, k, q_pos_offset, k_pos_offset) ==
  <<Rotate(q, q_pos_offset), Rotate(k, k_pos_offset)>>

\* ------------------------------ flash_exp kernel (flash_attn_func)
\* Attention dropout draws: which (query, key) weights survive.
DropMasks == {"keep_all", "drop_all", "alternate"}

Kept(mask, i, j) ==
  \/ mask = "keep_all"
  \/ mask = "alternate" /\ (i + j) % 2 = 0

\* Survivors of a dropout with probability p percent are scaled by 1/(1-p).
DropScale(p) == 100 \div (100 - p)

\* Query i may not attend key j.
Masked(i, j, Nq, Nk, causal, window_size) ==
  \/ causal /\ j > i + (Nk - Nq)
  \/ window_size[1] >= 0 /\ j < i - window_size[1]
  \/ window_size[2] >= 0 /\ j > i + window_size[2]

\* The kernel's scale on the raw dot product, as an exponent in quarter
\* powers of head_dim: "None" is the default head_dim^(-0.5), "1.0" is 1.
ScaleExp(softmax_scale) == IF softmax_scale = "None" THEN -2 ELSE 0

\* logit = (q_i . k_j) * head_dim^(exp/4) + alibi_bias(i, j) + sigmoid_bias
Logit(dot, exp, hd, bias) ==
  [dot |-> dot, exp |-> IF dot = 0 \/ hd = 1 THEN 0 ELSE exp, bias |-> bias]

AlibiBias(alibi_slopes, h, i, j, Nq, Nk) ==
  IF alibi_slopes = NoSlopes THEN 0 ELSE -(alibi_slopes[h] * Abs(i + Nk - Nq - j))

KernelCheck(a) ==
  IF \/ a.q.shape[1] # a.k.shape[1]
     \/ a.k.shape # a.v.shape
     \/ a.q.shape[3] # a.k.shape[3]
     \/ a.q.shape[4] # a.k.shape[4]
     \/ a.alibi_slopes # NoSlopes /\ Len(a.alibi_slopes) # a.q.shape[3]
  THEN "ShapeMismatch"
  ELSE IF a.q.dtype # a.v.dtype \/ a.k.dtype # a.v.dtype THEN "DtypeMismatch"
  ELSE IF a.window_size[1] < -1 \/ a.window_size[2] < -1 THEN "UnsupportedConfiguration"
  ELSE None

\* out_i = sum over unmasked j of sigmoid(logit(i, j)) * v_j, per batch and head.
flash_attn_sigmoid_func(a, mask) ==
  IF KernelCheck(a) # None THEN Err(KernelCheck(a))
  ELSE
    LET B == a.q.shape[1]
        Nq == a.q.shape[2]
        Nk == a.k.shape[2]
        H == a.q.shape[3]
        hd == a.q.shape[4]
        hdv == a.v.shape[4]
        exp == a.q.sexp + a.k.sexp + ScaleExp(a.softmax_scale)
        Key(b, i, j, h) ==
          Logit(Dot(a.q.data[b][i][h], a.k.data[b][j][h]), exp, hd,
                AlibiBias(a.alibi_slopes, h, i, j, Nq, Nk) + a.sigmoid_bias)
        Live(i, j) ==
          /\ ~Masked(i, j, Nq, Nk, a.causal, a.window_size)
          /\ a.dropout_p = 0 \/ Kept(mask, i, j)
    IN  Tensor(<<B, Nq, H, hdv>>, a.v.dtype, a.v.sexp,
          [b \in 1..B |-> [i \in 1..Nq |-> [h \in 1..H |-> [d \in 1..hdv |->
             FSum([j \in 1..Nk |->
                IF Live(i, j)
                THEN FTerm(DropScale(a.dropout_p) * a.v.data[b][j][h][d], Key(b, i, j, h))
                ELSE FZero])]]]])

\* flash_attn_qkvpacked_func: the same computation on the three slices.
flash_attn_sigmoid_qkvpacked_func(a, mask) ==
  flash_attn_sigmoid_func(
    [q |-> Unbind(a.qkv, 1), k |-> Unbind(a.qkv, 2), v |-> Unbind(a.qkv, 3),
     softmax_scale |-> a.softmax_scale, dropout_p |-> a.dropout_p,
     window_size |-> a.window_size, alibi_slopes |-> a.alibi_slopes,
     causal |-> a.causal, sigmoid_bias |-> a.sigmoid_bias], mask)

\* ------------------------------------------------ the kernel wrappers
\* t * head_dim^(e/4)
MulScale(t, e) == [t EXCEPT !.sexp = @ + e]

\* The result of a wrapper: the kernel calls it made and what it returns.
Ret(kcalls, res) == [kcalls |-> kcalls, res |-> res]

\* The wrapper prescaling by head_dim^(-0.5) instead of head_dim^(-0.25).
flash2_sigmoid_attn_half(w, be, mask) ==
  LET scale_factor == -2
      kargs == [q |-> IF w.prescale THEN MulScale(w.q, scale_factor) ELSE w.q,
                k |-> IF w.prescale THEN MulScale(w.k, scale_factor) ELSE w.k,
                v |-> w.v,
                softmax_scale |-> IF w.prescale THEN "1.0" ELSE "None",
                dropout_p |-> w.attn_drop,
                window_size |-> w.window_size,
                alibi_slopes |-> w.alibi_slopes,
                causal |-> w.causal,
                sigmoid_bias |-> w.sigmoid_bias]
      out == flash_attn_sigmoid_func(kargs, mask)
  IN  IF ~be THEN Ret(<<>>, Err("NameError"))
      ELSE Ret(<<kargs>>, IF IsErr(out) THEN out ELSE Flatten2(out))

\* w: the keyword arguments.  backend: flash_exp was importable.
flash2_sigmoid_attn(w, backend, mask) ==
  LET scale_factor == -1
      kargs == [q |-> IF w.prescale THEN MulScale(w.q, scale_factor) ELSE w.q,
                k |-> IF w.prescale THEN MulScale(w.k, scale_factor) ELSE w.k,
                v |-> w.v,
                softmax_scale |-> IF w.prescale THEN "1.0" ELSE "None",
                dropout_p |-> w.attn_drop,
                window_size |-> w.window_size,
                alibi_slopes |-> w.alibi_slopes,
                causal |-> w.causal,
                sigmoid_bias |-> w.sigmoid_bias]
      out == flash_attn_sigmoid_func(kargs, mask)
  IN  IF ~backend THEN Ret(<<>>, Err("NameError"))
      ELSE Ret(<<kargs>>, IF IsErr(out) THEN out ELSE Flatten2(out))

\* The factor applied to all three slices.
PackedScaleFactor_all == [s \in 1..3 |-> -1]

\* torch.ones([1, 1, 3, 1, 1]) with [:, :, :-1] *= head_dim^(-0.25)
PackedScaleFactor == [s \in 1..3 |-> IF s <= 3 - 1 THEN -1 ELSE 0]

MulPacked(p, factor) == [p EXCEPT !.sexp = [s \in DOMAIN p.sexp |-> p.sexp[s] + factor[s]]]

fused_sigmoid_flash2_attn(w, backend, mask) ==
  LET scale_factor == PackedScaleFactor
      kargs == [qkv |-> IF w.prescale THEN MulPacked(w.qkv, scale_factor) ELSE w.qkv,
                softmax_scale |-> IF w.prescale THEN "1.0" ELSE "None",
                dropout_p |-> w.attn_drop,
                causal |-> w.causal,
                window_size |-> w.window_size,
                alibi_slopes |-> w.alibi_slopes,
                sigmoid_bias |-> w.sigmoid_bias]
      out == flash_attn_sigmoid_qkvpacked_func(kargs, mask)
  IN  IF ~backend THEN Ret(<<>>, Err("NameError"))
      ELSE Ret(<<kargs>>, IF IsErr(out) THEN out ELSE Flatten2(out))

\* ------------------------------------------- calling which_flash_attn
\* Python binds the keyword arguments to the callee's parameters: an
\* unknown keyword or a missing required parameter raises TypeError.
Required(fn) ==
  IF fn = "flash2_sigmoid_attn" THEN {"q", "k", "v", "sigmoid_bias"}
  ELSE {"qkv", "sigmoid_bias"}

Defaults(fn) ==
  [attn_drop |-> 0, window_size |-> <<-1, -1>>, alibi_slopes |-> NoSlopes,
   causal |-> (fn = "fused_sigmoid_flash2_attn"), prescale |-> TRUE]

Bind(fn, kw) ==
  LET names == Required(fn) \cup DOMAIN Defaults(fn)
  IN  IF ~((DOMAIN kw) \subseteq names) \/ ~(Required(fn) \subseteq DOMAIN kw)
      THEN Err("TypeError")
      ELSE [n \in names |-> IF n \in DOMAIN kw THEN kw[n] ELSE Defaults(fn)[n]]

CallFlash(fn, kw, backend, mask) ==
  LET w == Bind(fn, kw)
  IN  IF IsErr(w) THEN Ret(<<>>, w)
      ELSE IF fn = "flash2_sigmoid_attn" THEN flash2_sigmoid_attn(w, backend, mask)
      ELSE fused_sigmoid_flash2_attn(w, backend, mask)

\* ---------------------------------------------------------- the layers
LinearModule(in_features, out_features, seed) ==
  [in_features |-> in_features, out_features |-> out_features, seed |-> seed]

NormModule(enabled, normalized_shape) ==
  IF enabled THEN [fn |-> "LayerNorm", normalized_shape |-> normalized_shape]
  ELSE [fn |-> "Identity", normalized_shape |-> 0]

ApplyLinear(m, t) == Linear(t, m.in_features, m.out_features, m.seed)

ApplyLinearF(m, t) == LinearF(t, m.in_features, m.out_features, m.seed)

ApplyNorm(m, t) ==
  IF m.fn = "Identity" THEN Identity(t)
  ELSE IF Size(t, -1) # m.normalized_shape THEN Err("ShapeMismatch")
  ELSE LayerNorm(t)

\* nn.Dropout(p) on the projected output: draw selects the survivors.
Dropout(t, p, draw) ==
  IF p = 0 THEN t
  ELSE Tensor(t.shape, t.dtype, t.sexp,
         [b \in DOMAIN t.data |-> [i \in DOMAIN t.data[b] |-> [o \in DOMAIN t.data[b][i] |->
            IF Kept(draw, i, o) THEN FScale(DropScale(p), t.data[b][i][o]) ELSE FZero]]])

\* The constructor without its divisibility assertion.
FlashSigmoidAttention_init_unchecked(a) ==
  [kind |-> "self",
   causal |-> a.causal,
   num_heads |-> a.num_heads,
   qk_norm |-> a.qk_norm,
   window_size |-> a.window_size,
   alibi_slopes |-> a.alibi_slopes,
   head_dim |-> a.dim \div a.num_heads,
   sigmoid_bias |-> a.sigmoid_bias,
   which_flash_attn |-> a.which_flash_attn,
   qk_transform |-> a.qk_transform,
   qkv |-> [in_features |-> a.dim, out_features |-> a.dim * 3, seed |-> 0],
   q_norm |-> [fn |-> "Identity", normalized_shape |-> 0],
   k_norm |-> [fn |-> "Identity", normalized_shape |-> 0],
   proj |-> [in_features |-> a.dim, out_features |-> a.dim, seed |-> 1],
   attn_drop |-> a.attn_drop,
   proj_drop |-> a.proj_drop]

FlashSigmoidAttention_init(a) ==
  IF a.dim % a.num_heads # 0 THEN Err("AssertionError")
  ELSE [kind |-> "self",
        causal |-> a.causal,
        num_heads |-> a.num_heads,
        qk_norm |-> a.qk_norm,
        window_size |-> a.window_size,
        alibi_slopes |-> a.alibi_slopes,
        head_dim |-> a.dim \div a.num_heads,
        sigmoid_bias |-> a.sigmoid_bias,
        which_flash_attn |-> a.which_flash_attn,
        qk_transform |-> a.qk_transform,
        qkv |-> LinearModule(a.dim, a.dim * 3, QkvSeed),
        q_norm |-> NormModule(a.qk_norm, a.dim \div a.num_heads),
        k_norm |-> NormModule(a.qk_norm, a.dim \div a.num_heads),
        proj |-> LinearModule(a.dim, a.dim, ProjSeed),
        attn_drop |-> a.attn_drop,
        proj_drop |-> a.proj_drop]

\* The cross-attention constructor with the V norm under the qk_norm flag.
FlashSigmoidCrossAttention_init_vnorm_flag(a) ==
  IF ~(a.q_dim % a.num_heads = 0 /\ a.kv_dim % a.num_heads = 0) THEN Err("AssertionError")
  ELSE [kind |-> "cross",
        causal |-> a.causal,
        num_heads |-> a.num_heads,
        qk_norm |-> a.qk_norm,
        window_size |-> a.window_size,
        alibi_slopes |-> a.alibi_slopes,
        head_dim_q |-> a.q_dim \div a.num_heads,
        head_dim_kv |-> a.kv_dim \div a.num_heads,
        sigmoid_bias |-> a.sigmoid_bias,
        which_flash_attn |-> a.which_flash_attn,
        qk_transform |-> a.qk_transform,
        q_proj |-> [in_features |-> a.q_dim, out_features |-> a.q_dim, seed |-> 1],
        kv_proj |-> [in_features |-> a.kv_dim, out_features |-> a.kv_dim * 2, seed |-> 2],
        q_norm |-> NormModule(a.qk_norm, a.q_dim \div a.num_heads),
        k_norm |-> NormModule(a.qk_norm, a.kv_dim \div a.num_heads),
        v_norm |-> NormModule(a.qk_norm, a.kv_dim \div a.num_heads),
        proj |-> [in_features |-> a.kv_dim, out_features |-> a.q_dim, seed |-> 1],
        attn_drop |-> a.attn_drop,
        proj_drop |-> a.proj_drop]

FlashSigmoidCrossAttention_init(a) ==
  IF ~(a.q_dim % a.num_heads = 0 /\ a.kv_dim % a.num_heads = 0) THEN Err("AssertionError")
  ELSE [kind |-> "cross",
        causal |-> a.causal,
        num_heads |-> a.num_heads,
        qk_norm |-> a.qk_norm,
        window_size |-> a.window_size,
        alibi_slopes |-> a.alibi_slopes,
        head_dim_q |-> a.q_dim \div a.num_heads,
        head_dim_kv |-> a.kv_dim \div a.num_heads,
        sigmoid_bias |-> a.sigmoid_bias,
        which_flash_attn |-> a.which_flash_attn,
        qk_transform |-> a.qk_transform,
        q_proj |-> LinearModule(a.q_dim, a.q_dim, QSeed),
        kv_proj |-> LinearModule(a.kv_dim, a.kv_dim * 2, KvSeed),
        q_norm |-> NormModule(a.qk_norm, a.q_dim \div a.num_heads),
        k_norm |-> NormModule(a.qk_norm, a.kv_dim \div a.num_heads),
        v_norm |-> NormModule(TRUE, a.kv_dim \div a.num_heads),
        proj |-> LinearModule(a.kv_dim, a.q_dim, ProjSeed),
        attn_drop |-> a.attn_drop,
        proj_drop |-> a.proj_drop]

\* One step of a forward call: a call the layer makes, with the position
\* offsets where it takes any.
Step(op) == [op |-> op, offsets |-> <<>>]

TransformStep == [op |-> "qk_transform", offsets |-> <<0, 0>>]

\* A forward call that raised: the error reaches the caller, no record.
Raised(error, log, wcalls, kcalls) ==
  [status |-> "raised", error |-> error, log |-> log, wcalls |-> wcalls,
   kcalls |-> kcalls, output |-> <<>>]

\* A forward call that returned its Output Record.
Returned(log, wcalls, kcalls, attn_times_v, attn_proj) ==
  [status |-> "returned", error |-> None, log |-> log, wcalls |-> wcalls,
   kcalls |-> kcalls,
   output |-> <<[attn_times_v |-> attn_times_v, attn_proj |-> attn_proj]>>]

\* The kernel call without causal=self.causal: the wrapper's default applies.
FlashKwargs_no_causal(L, q, k, v) ==
  [q |-> q, k |-> k, v |-> v,
   attn_drop |-> L.attn_drop,
   window_size |-> L.window_size,
   alibi_slopes |-> L.alibi_slopes,
   sigmoid_bias |-> L.sigmoid_bias]

\* The kernel call without attn_drop=self.attn_drop.
FlashKwargs_no_attn_drop(L, q, k, v) ==
  [q |-> q, k |-> k, v |-> v,
   causal |-> L.causal,
   window_size |-> L.window_size,
   alibi_slopes |-> L.alibi_slopes,
   sigmoid_bias |-> L.sigmoid_bias]

\* The keyword arguments both layers pass to which_flash_attn.
FlashKwargs(L, q, k, v) ==
  [q |-> q, k |-> k, v |-> v,
   attn_drop |-> L.attn_drop,
   causal |-> L.causal,
   window_size |-> L.window_size,
   alibi_slopes |-> L.alibi_slopes,
   sigmoid_bias |-> L.sigmoid_bias]

\* The tail of forward with the kernel's failure caught and a partial
\* record returned.
Attend_swallow(L, log, q, k, v, be, adraw, pdraw) ==
  LET kw == [q |-> q, k |-> k, v |-> v, attn_drop |-> L.attn_drop, causal |-> L.causal,
             window_size |-> L.window_size, alibi_slopes |-> L.alibi_slopes,
             sigmoid_bias |-> L.sigmoid_bias]
      r == CallFlash(L.which_flash_attn, kw, be, adraw)
      log1 == Append(log, Step("which_flash_attn"))
      p == ApplyLinearF(L.proj, r.res)
      log2 == Append(log1, Step("proj"))
  IN  IF IsErr(r.res) THEN Returned(log1, <<kw>>, r.kcalls, r.res, r.res)
      ELSE IF IsErr(p) THEN Raised(p.err, log2, <<kw>>, r.kcalls)
      ELSE Returned(Append(log2, Step("proj_drop")), <<kw>>, r.kcalls, r.res,
                    Dropout(p, L.proj_drop, pdraw))

\* From the kernel call on: shared tail of both forward methods.
Attend(L, log, q, k, v, backend, adraw, pdraw) ==
  LET kw == FlashKwargs(L, q, k, v)
      r == CallFlash(L.which_flash_attn, kw, backend, adraw)
      log1 == Append(log, Step("which_flash_attn"))
      p == ApplyLinearF(L.proj, r.res)
      log2 == Append(log1, Step("proj"))
  IN  IF IsErr(r.res) THEN Raised(r.res.err, log1, <<kw>>, r.kcalls)
      ELSE IF IsErr(p) THEN Raised(p.err, log2, <<kw>>, r.kcalls)
      ELSE Returned(Append(log2, Step("proj_drop")), <<kw>>, r.kcalls, r.res,
                    Dropout(p, L.proj_drop, pdraw))

\* The transform applied whether or not one is configured.
QkTransform_always(L, q, k) == apply_rotary_emb(q, k, 0, 0)

QkTransform(L, q, k) ==
  IF L.qk_transform # None THEN apply_rotary_emb(q, k, 0, 0) ELSE <<q, k>>

TransformLog(L, log) ==
  IF L.qk_transform # None THEN Append(log, TransformStep) ELSE log

\* FlashSigmoidAttention.forward(x)
SelfForward(L, x, backend, adraw, pdraw) ==
  LET C == x.shape[3]
      lin == ApplyLinear(L.qkv, x)
      qkv == Reshape5(lin, 3, L.num_heads, C \div L.num_heads)
      v == Unbind(qkv, 3)
      q1 == ApplyNorm(L.q_norm, Unbind(qkv, 1))
      k1 == ApplyNorm(L.k_norm, Unbind(qkv, 2))
      qk == QkTransform(L, q1, k1)
      log == TransformLog(L, <<Step("qkv"), Step("q_norm"), Step("k_norm")>>)
  IN  IF IsErr(lin) THEN Raised(lin.err, <<Step("qkv")>>, <<>>, <<>>)
      ELSE IF IsErr(qkv) THEN Raised(qkv.err, <<Step("qkv")>>, <<>>, <<>>)
      ELSE IF IsErr(q1) THEN Raised(q1.err, <<Step("qkv"), Step("q_norm")>>, <<>>, <<>>)
      ELSE IF IsErr(k1)
        THEN Raised(k1.err, <<Step("qkv"), Step("q_norm"), Step("k_norm")>>, <<>>, <<>>)
      ELSE Attend(L, log \o <<Step("q.to"), Step("k.to")>>,
                  To(qk[1], v.dtype), To(qk[2], v.dtype), v, backend, adraw, pdraw)

\* FlashSigmoidCrossAttention.forward(q, kv)
CrossForward(L, xq, xkv, backend, adraw, pdraw) ==
  LET qlin == ApplyLinear(L.q_proj, xq)
      q0 == Reshape4(qlin, L.num_heads, L.head_dim_q)
      kvlin == ApplyLinear(L.kv_proj, xkv)
      kv == Reshape5(kvlin, 2, L.num_heads, L.head_dim_kv)
      q1 == ApplyNorm(L.q_norm, q0)
      k1 == ApplyNorm(L.k_norm, Unbind(kv, 1))
      v1 == ApplyNorm(L.v_norm, Unbind(kv, 2))
      qk == QkTransform(L, q1, k1)
      projs == <<Step("q_proj"), Step("kv_proj")>>
      norms == <<Step("q_norm"), Step("k_norm"), Step("v_norm")>>
      log == TransformLog(L, projs \o norms)
  IN  IF IsErr(qlin) THEN Raised(qlin.err, <<Step("q_proj")>>, <<>>, <<>>)
      ELSE IF IsErr(q0) THEN Raised(q0.err, <<Step("q_proj")>>, <<>>, <<>>)
      ELSE IF IsErr(kvlin) THEN Raised(kvlin.err, projs, <<>>, <<>>)
      ELSE IF IsErr(kv) THEN Raised(kv.err, projs, <<>>, <<>>)
      ELSE IF IsErr(q1) THEN Raised(q1.err, projs \o SubSeq(norms, 1, 1), <<>>, <<>>)
      ELSE IF IsErr(k1) THEN Raised(k1.err, projs \o SubSeq(norms, 1, 2), <<>>, <<>>)
      ELSE IF IsErr(v1) THEN Raised(v1.err, projs \o norms, <<>>, <<>>)
      ELSE Attend(L, log \o <<Step("q.to"), Step("k.to")>>,
                  To(qk[1], v1.dtype), To(qk[2], v1.dtype), v1, backend, adraw, pdraw)

\* ------------------------------------------------------------- state
VARIABLES
  backend,   \* the import of flash_exp succeeded
  args,      \* the constructor arguments
  layer,     \* the constructed layer, or the error its constructor raised
  fwd,       \* the forward call the caller made last: arguments and outcome
  wcall      \* the direct call of a kernel wrapper the caller made last

vars == <<backend, args, layer, fwd, wcall>>

\* ------------------------------------------------ configuration space
Dims == 1..MaxDim

Heads == 1..MaxHeads

Seqs == 1..MaxSeq

Dtypes == {"float16", "float32"}

Windows == {<<-1, -1>>, <<1, 0>>, <<-2, -1>>}

Slopes == [h \in 1..MaxHeads |-> h]

Bumps == {0, 2}

\* Window, ALiBi, bias and dropout settings: the defaults of __init__
\* (sigmoid_bias 0) and each setting changed alone.
DefaultPolicy ==
  [window_size |-> <<-1, -1>>, alibi_slopes |-> NoSlopes, sigmoid_bias |-> 0,
   attn_drop |-> 0, proj_drop |-> 0]

Policies ==
  {[DefaultPolicy EXCEPT !.window_size = w] : w \in Windows}
    \cup {[DefaultPolicy EXCEPT !.alibi_slopes = Slopes],
          [DefaultPolicy EXCEPT !.sigmoid_bias = -1],
          [DefaultPolicy EXCEPT !.attn_drop = 50],
          [DefaultPolicy EXCEPT !.proj_drop = 50]}

Flags ==
  [causal : BOOLEAN, qk_norm : BOOLEAN,
   qk_transform : {None, "apply_rotary_emb"},
   which_flash_attn : {"flash2_sigmoid_attn", "fused_sigmoid_flash2_attn"}]

\* Every combination of the flags with the default policy; the other
\* policies with the unpacked wrapper, the only one a layer's kernel call
\* reaches the kernel with.
Configs ==
  {f @@ p : f \in Flags, p \in {DefaultPolicy}}
    \cup {f @@ p : f \in {g \in Flags : g.which_flash_attn = "flash2_sigmoid_attn"},
                   p \in Policies}

SelfArgs ==
  {[kind |-> "self", dim |-> d, num_heads |-> h] @@ c :
     d \in Dims, h \in Heads, c \in Configs}

CrossArgs ==
  {[kind |-> "cross", q_dim |-> dq, kv_dim |-> dk, num_heads |-> h] @@ c :
     dq \in Dims, dk \in Dims, h \in Heads, c \in Configs}

Construct(a) ==
  IF a.kind = "self" THEN FlashSigmoidAttention_init(a)
  ELSE FlashSigmoidCrossAttention_init(a)

\* A (1, N, C) input: position i holds i * c in channel c, and the last
\* position is raised by bump.
Input(N, C, dtype, bump) ==
  Tensor(<<1, N, C>>, dtype, 0,
    [b \in 1..1 |-> [i \in 1..N |-> [c \in 1..C |->
       i * c + (IF i = N THEN bump ELSE 0)]]])

\* Inputs of the configured width, and one that is a channel too wide.
SelfInputs(L) ==
  {Input(N, L.qkv.in_features, dt, bump) : N \in Seqs, dt \in Dtypes, bump \in Bumps}
    \cup {Input(1, L.qkv.in_features + 1, "float16", 0)}

CrossInputs(L) ==
  {<<Input(Nq, L.q_proj.in_features, "float16", 0), Input(Nk, L.kv_proj.in_features, "float16", 0)>> :
     Nq \in Seqs, Nk \in Seqs}
    \cup {<<Input(1, L.q_proj.in_features + 1, "float16", 0),
            Input(1, L.kv_proj.in_features, "float16", 0)>>,
          <<Input(1, L.q_proj.in_features, "float32", 0),
            Input(1, L.kv_proj.in_features + 1, "float32", 0)>>}

Draws(p) == IF p = 0 THEN {"keep_all"} ELSE DropMasks

NoCall ==
  [status |-> "idle", error |-> None, log |-> <<>>, wcalls |-> <<>>, kcalls |-> <<>>,
   output |-> <<>>, inputs |-> <<>>, draws |-> <<>>]

NoWrapperCall == [fn |-> None, w |-> <<>>, draw |-> "keep_all", kcalls |-> <<>>, res |-> <<>>]

Constructed == ~IsErr(layer)

\* ----------------------------------------------------------- actions
Init ==
  /\ backend \in BOOLEAN
  /\ args \in SelfArgs \cup CrossArgs
  /\ layer = Construct(args)
  /\ fwd = NoCall
  /\ wcall = NoWrapperCall

\* layer(x) on a self-attention layer.
Forward ==
  /\ Constructed
  /\ layer.kind = "self"
  /\ fwd.status = "idle"
  /\ \E x \in SelfInputs(layer), adraw \in Draws(layer.attn_drop),
        pdraw \in Draws(layer.proj_drop) :
       fwd' = SelfForward(layer, x, backend, adraw, pdraw)
                @@ [inputs |-> <<x>>, draws |-> <<adraw, pdraw>>]
  /\ UNCHANGED <<backend, args, layer, wcall>>

\* layer(q, kv) on a cross-attention layer.
ForwardCross ==
  /\ Constructed
  /\ layer.kind = "cross"
  /\ fwd.status = "idle"
  /\ \E x \in CrossInputs(layer), adraw \in Draws(layer.attn_drop),
        pdraw \in Draws(layer.proj_drop) :
       fwd' = CrossForward(layer, x[1], x[2], backend, adraw, pdraw)
                @@ [inputs |-> x, draws |-> <<adraw, pdraw>>]
  /\ UNCHANGED <<backend, args, layer, wcall>>

\* The caller lets go of the outcome; the layer keeps nothing of it.
Discard ==
  /\ fwd.status # "idle"
  /\ fwd' = NoCall
  /\ UNCHANGED <<backend, args, layer, wcall>>

Next == Forward \/ ForwardCross \/ Discard

Spec == Init /\ [][Next]_vars

\* ------------------------------- the wrappers called on their own
HeadDims == 1..MaxHeadDim

\* A (1, N, H, hd) tensor of small integers; salt tells q, k and v apart.
KInput(N, H, hd, dtype, salt) ==
  Tensor(<<1, N, H, hd>>, dtype, 0,
    [b \in 1..1 |-> [i \in 1..N |-> [h \in 1..H |-> [d \in 1..hd |->
       ((i * (d + salt) + h * (salt + 1) + d) % 5) - 2]]]])

\* torch.stack([q, k, v], dim=2): the packed (1, N, 3, H, hd) tensor.
Pack(q, k, v) ==
  Tensor(<<q.shape[1], q.shape[2], 3, q.shape[3], q.shape[4]>>, q.dtype, <<q.sexp, k.sexp, v.sexp>>,
    [b \in DOMAIN q.data |-> [i \in DOMAIN q.data[b] |->
       <<q.data[b][i], k.data[b][i], v.data[b][i]>>]])

KernelPolicies ==
  {[n \in (DOMAIN p) \ {"proj_drop"} |-> p[n]] : p \in Policies}

UnpackedKwargs ==
  {[q |-> KInput(Nq, H, hdq, "float16", 0), k |-> KInput(Nk, H, hdk, "float16", 1),
    v |-> KInput(Nk, H, hdk, "float16", 2), causal |-> c, prescale |-> s] @@ p :
     Nq \in Seqs, Nk \in Seqs, H \in Heads, hdq \in HeadDims, hdk \in HeadDims,
     c \in BOOLEAN, s \in BOOLEAN, p \in KernelPolicies}

PackedKwargs ==
  {[qkv |-> Pack(KInput(N, H, hd, "float16", 0), KInput(N, H, hd, "float16", 1),
                 KInput(N, H, hd, "float16", 2)), causal |-> c, prescale |-> s] @@ p :
     N \in Seqs, H \in Heads, hd \in HeadDims,
     c \in BOOLEAN, s \in BOOLEAN, p \in KernelPolicies}

WrapperCall(fn, kw, draw) ==
  LET r == CallFlash(fn, kw, backend, draw)
  IN  [fn |-> fn, w |-> <<kw>>, draw |-> draw, kcalls |-> r.kcalls, res |-> <<r.res>>]

InitKernel ==
  /\ backend \in BOOLEAN
  /\ args = [kind |-> "none"]
  /\ layer = Err("NoLayer")
  /\ fwd = NoCall
  /\ wcall = NoWrapperCall

\* flash2_sigmoid_attn(q=..., k=..., v=..., ...)
CallUnpacked ==
  /\ wcall.fn = None
  /\ \E kw \in UnpackedKwargs, draw \in DropMasks :
       /\ draw \in Draws(kw.attn_drop)
       /\ wcall' = WrapperCall("flash2_sigmoid_attn", kw, draw)
  /\ UNCHANGED <<backend, args, layer, fwd>>

\* fused_sigmoid_flash2_attn(qkv=..., ...)
CallPacked ==
  /\ wcall.fn = None
  /\ \E kw \in PackedKwargs, draw \in DropMasks :
       /\ draw \in Draws(kw.attn_drop)
       /\ wcall' = WrapperCall("fused_sigmoid_flash2_attn", kw, draw)
  /\ UNCHANGED <<backend, args, layer, fwd>>

\* The caller lets go of the wrapper's result.
DiscardResult ==
  /\ wcall.fn # None
  /\ wcall' = NoWrapperCall
  /\ UNCHANGED <<backend, args, layer, fwd>>

NextKernel == CallUnpacked \/ CallPacked \/ DiscardResult

SpecKernel == InitKernel /\ [][NextKernel]_vars

\* =================================================================
\* Properties
\* =================================================================
Called == fwd.status # "idle"

ReturnedOk == fwd.status = "returned"

IsSelf == Constructed /\ layer.kind = "self"

IsCross == Constructed /\ layer.kind = "cross"

\* Slice s of the reshaped output of projection m on input x, element by
\* element: row ((s-1)*H + (h-1))*hd + d of the weight matrix applied to x.
ProjectedSlice(m, x, s, H, hd) ==
  Tensor(<<x.shape[1], x.shape[2], H, hd>>, x.dtype, 0,
    [b \in 1..x.shape[1] |-> [i \in 1..x.shape[2] |-> [h \in 1..H |-> [d \in 1..hd |->
       SumSeq([c \in 1..m.in_features |->
                 Weight(m.seed, ((s - 1) * H + (h - 1)) * hd + d, c) * x.data[b][i][c]])]]]])

\* q, k, v as the projections deliver them, before any normalization.
RawQ ==
  IF layer.kind = "self"
  THEN ProjectedSlice(layer.qkv, fwd.inputs[1], 1, layer.num_heads, layer.head_dim)
  ELSE ProjectedSlice(layer.q_proj, fwd.inputs[1], 1, layer.num_heads, layer.head_dim_q)

RawK ==
  IF layer.kind = "self"
  THEN ProjectedSlice(layer.qkv, fwd.inputs[1], 2, layer.num_heads, layer.head_dim)
  ELSE ProjectedSlice(layer.kv_proj, fwd.inputs[2], 1, layer.num_heads, layer.head_dim_kv)

RawV ==
  IF layer.kind = "self"
  THEN ProjectedSlice(layer.qkv, fwd.inputs[1], 3, layer.num_heads, layer.head_dim)
  ELSE ProjectedSlice(layer.kv_proj, fwd.inputs[2], 2, layer.num_heads, layer.head_dim_kv)

\* ---- C1 ---------------------------------------------------------
\* C1: construction of a self-attention layer succeeds exactly when
\* embedding_dim % num_heads = 0 and otherwise fails with the constructor's
\* error, before any forward call; a constructed layer never fails on
\* divisibility at forward time (a forward call on an input of the right
\* width gets past the reshape).  A cross-attention layer is constructed
\* exactly when q_dim and kv_dim are each divisible by num_heads.
C1_ConstructionValidated ==
  /\ args.kind = "self" =>
       /\ Constructed <=> args.dim % args.num_heads = 0
       /\ ~Constructed => layer = Err("AssertionError") /\ ~Called
       /\ Constructed => layer.head_dim * layer.num_heads = args.dim
       /\ Called /\ fwd.inputs[1].shape[3] = args.dim => Len(fwd.log) > 1
  /\ args.kind = "cross" =>
       /\ Constructed <=> (args.q_dim % args.num_heads = 0 /\ args.kv_dim % args.num_heads = 0)
       /\ ~Constructed => layer = Err("AssertionError") /\ ~Called

C1_Witness ==
  /\ args.kind = "self"
  /\ args.dim % args.num_heads # 0
  /\ layer = Err("AssertionError")

\* ---- C2 ---------------------------------------------------------
\* A forward call of the cross-attention layer that nothing but the two
\* embedding widths can make fail: the backend is there, the unpacked
\* wrapper is configured, the policy is one the kernel accepts and the
\* inputs have the configured widths.
CrossCallWellFormed ==
  /\ IsCross
  /\ Called
  /\ backend
  /\ layer.which_flash_attn = "flash2_sigmoid_attn"
  /\ layer.window_size[1] >= -1
  /\ layer.alibi_slopes # NoSlopes => Len(layer.alibi_slopes) = layer.num_heads
  /\ fwd.inputs[1].shape[3] = args.q_dim
  /\ fwd.inputs[2].shape[3] = args.kv_dim

\* C2: with q_dim # kv_dim (both divisible by num_heads) construction and
\* forward succeed, attn_proj has shape (batch, seq_q, q_dim) and
\* attn_times_v has width kv_dim.
C2_CrossDimsForward ==
  CrossCallWellFormed /\ args.q_dim # args.kv_dim =>
    /\ ReturnedOk
    /\ fwd.output[1].attn_proj.shape = <<fwd.inputs[1].shape[1], fwd.inputs[1].shape[2], args.q_dim>>
    /\ fwd.output[1].attn_times_v.shape[3] = args.kv_dim

\* ---- C3 ---------------------------------------------------------
\* C3: whichever wrapper the layer was constructed with, the keyword
\* arguments the layer passes at the kernel call bind to that wrapper's
\* parameters, and a forward call that nothing else can make fail returns
\* an Output Record.
C3_BothCallShapes ==
  IsSelf /\ Called /\ fwd.wcalls # <<>> =>
    /\ ~IsErr(Bind(layer.which_flash_attn, fwd.wcalls[1]))
    /\ (/\ backend
        /\ layer.window_size[1] >= -1
        /\ layer.alibi_slopes # NoSlopes => Len(layer.alibi_slopes) = layer.num_heads)
       => ReturnedOk

\* ---- C4 ---------------------------------------------------------
\* t with delta added to every element at sequence position j.
PerturbAt(t, j, delta) ==
  [t EXCEPT !.data = [b \in DOMAIN t.data |-> [i \in DOMAIN t.data[b] |->
     IF i = j THEN [c \in DOMAIN t.data[b][i] |->
                      IF t.shape[Len(t.shape)] = Len(t.data[b][i])
                      THEN t.data[b][i][c] + delta
                      ELSE [d \in DOMAIN t.data[b][i][c] |-> t.data[b][i][c][d] + delta]]
     ELSE t.data[b][i]]]]

Deltas == {1, -3}

\* The kernel's output rows for one recorded invocation.
KernelRows(kc) == flash_attn_sigmoid_func(kc, fwd.draws[1]).data

\* The forward call of the state, made again on another input.
Again(x) == SelfForward(layer, x, backend, fwd.draws[1], fwd.draws[2])

\* C4: under causal=true with seq_q = seq_kv, the kernel's output at query
\* position i is the same when the key or the value at a position j > i is
\* perturbed, and the Output Record of a causal self-attention forward
\* call at position i (position 0 included) is the same when the input at
\* a position j > i is perturbed.
C4_CausalInvariance ==
  /\ \A n \in DOMAIN fwd.kcalls :
       LET kc == fwd.kcalls[n]
           rows == KernelRows(kc)
       IN  kc.causal /\ kc.q.shape[2] = kc.k.shape[2] /\ KernelCheck(kc) = None =>
             \A j \in 2..kc.q.shape[2], delta \in Deltas :
               LET rowsK == KernelRows([kc EXCEPT !.k = PerturbAt(kc.k, j, delta)])
                   rowsV == KernelRows([kc EXCEPT !.v = PerturbAt(kc.v, j, delta)])
               IN  \A i \in 1..(j - 1) : rowsK[1][i] = rows[1][i] /\ rowsV[1][i] = rows[1][i]
  /\ IsSelf /\ layer.causal /\ ReturnedOk =>
       LET x == fwd.inputs[1]
       IN  \A j \in 2..x.shape[2], delta \in Deltas :
             LET y == Again(PerturbAt(x, j, delta))
             IN  /\ y.status = "returned"
                 /\ \A i \in 1..(j - 1) :
                      /\ y.output[1].attn_proj.data[1][i] = fwd.output[1].attn_proj.data[1][i]
                      /\ y.output[1].attn_times_v.data[1][i] = fwd.output[1].attn_times_v.data[1][i]

\* A causal self-attention call of two positions where perturbing the
\* second input does change the second output.
C4_Witness ==
  /\ IsSelf /\ layer.causal /\ ReturnedOk
  /\ fwd.inputs[1].shape[2] >= 2
  /\ \E delta \in Deltas :
       Again(PerturbAt(fwd.inputs[1], 2, delta)).output[1].attn_proj.data[1][2]
         # fwd.output[1].attn_proj.data[1][2]

\* ---- C5 ---------------------------------------------------------
\* q or k as the layer's qk_norm setting and transform leave it, in v's
\* precision.
Prepared(raw, offset, dtype) ==
  LET n == IF layer.qk_norm THEN LayerNorm(raw) ELSE raw
  IN  To(IF layer.qk_transform # None THEN Rotate(n, offset) ELSE n, dtype)

\* C5: in the self-attention layer v reaches the kernel as the projection
\* delivered it, for both values of qk_norm, and q and k are normalized
\* exactly when qk_norm is set; in the cross-attention layer v reaches the
\* kernel normalized, for both values of qk_norm.
C5_VNormAsymmetry ==
  Constructed /\ fwd.wcalls # <<>> =>
    LET kw == fwd.wcalls[1]
    IN  /\ layer.kind = "self" => kw.v = RawV
        /\ layer.kind = "cross" => kw.v = LayerNorm(RawV)
        /\ kw.q = Prepared(RawQ, 0, kw.v.dtype)
        /\ kw.k = Prepared(RawK, 0, kw.v.dtype)
        /\ \A n \in DOMAIN fwd.kcalls : fwd.kcalls[n].v = kw.v

\* A cross-attention call without qk_norm whose v was changed by the
\* normalization.
C5_Witness ==
  /\ IsCross /\ ~layer.qk_norm /\ ReturnedOk
  /\ fwd.wcalls[1].v # RawV
  /\ fwd.wcalls[1].v.dtype # RawV.dtype

\* ---- C8 ---------------------------------------------------------
\* C8: a forward call that fails raises to its caller and returns no Output
\* Record; the layer calls the wrapper and the kernel at most once (no
\* retry); an error of the wrapper call, an input of the wrong width and
\* an unavailable backend each end the call raised with that error; a
\* returned call carries no error; without the backend no forward call
\* returns.
C8_ErrorsSurface ==
  Called =>
    /\ fwd.status \in {"raised", "returned"}
    /\ fwd.status = "raised" => fwd.output = <<>> /\ fwd.error # None
    /\ fwd.status = "returned" => Len(fwd.output) = 1 /\ fwd.error = None
    /\ Len(fwd.wcalls) <= 1 /\ Len(fwd.kcalls) <= 1
    /\ fwd.wcalls # <<>> =>
         LET r == CallFlash(layer.which_flash_attn, fwd.wcalls[1], backend, fwd.draws[1])
         IN  IsErr(r.res) => fwd.status = "raised" /\ fwd.error = r.res.err
    /\ fwd.inputs[1].shape[3] # (IF layer.kind = "self" THEN args.dim ELSE args.q_dim) =>
         fwd.status = "raised" /\ fwd.error = "ShapeMismatch"
    /\ layer.kind = "cross" /\ fwd.inputs[2].shape[3] # args.kv_dim =>
         fwd.status = "raised" /\ fwd.error = "ShapeMismatch"
    /\ ~backend => fwd.status = "raised"
    /\ ~backend /\ fwd.wcalls # <<>> => fwd.error \in {"NameError", "TypeError"}

C8_Witness ==
  /\ ~backend
  /\ fwd.status = "raised"
  /\ fwd.error = "NameError"
  /\ fwd.wcalls # <<>>

\* ---- C9 ---------------------------------------------------------
PolicyFields == {"causal", "window_size", "alibi_slopes", "sigmoid_bias", "attn_drop"}

\* C9: whatever forward calls were made, the layer's causal, window_size,
\* alibi_slopes, sigmoid_bias and attn_drop are the constructor's arguments,
\* and the wrapper call and the kernel invocation of every forward call
\* receive exactly those values, the dropout probability included.
C9_PolicyReadOnly ==
  Constructed =>
    /\ \A f \in PolicyFields : layer[f] = args[f]
    /\ \A n \in DOMAIN fwd.wcalls :
         /\ PolicyFields \subseteq DOMAIN fwd.wcalls[n]
         /\ \A f \in PolicyFields : fwd.wcalls[n][f] = args[f]
    /\ \A n \in DOMAIN fwd.kcalls :
         /\ fwd.kcalls[n].causal = args.causal
         /\ fwd.kcalls[n].window_size = args.window_size
         /\ fwd.kcalls[n].alibi_slopes = args.alibi_slopes
         /\ fwd.kcalls[n].sigmoid_bias = args.sigmoid_bias
         /\ fwd.kcalls[n].dropout_p = args.attn_drop

C9_Witness ==
  /\ ReturnedOk
  /\ args.attn_drop # 0
  /\ fwd.kcalls # <<>>
  /\ fwd.kcalls[1].dropout_p = args.attn_drop

\* ---- C10 --------------------------------------------------------
\* The steps of a forward call that runs to its end, in the order claimed.
Canonical ==
  (IF layer.kind = "self" THEN <<Step("qkv"), Step("q_norm"), Step("k_norm")>>
   ELSE <<Step("q_proj"), Step("kv_proj"), Step("q_norm"), Step("k_norm"), Step("v_norm")>>)
  \o (IF layer.qk_transform # None THEN <<TransformStep>> ELSE <<>>)
  \o <<Step("q.to"), Step("k.to"), Step("which_flash_attn"), Step("proj"), Step("proj_drop")>>

IsPrefix(s, t) == Len(s) <= Len(t) /\ s = SubSeq(t, 1, Len(s))

\* C10: the steps of a forward call are, in this order, projection,
\* normalization of q and k, positional transform, cast to v's precision,
\* the kernel call, output projection, dropout: a call that returns made
\* all of them and invoked the kernel exactly once, a call that raised made
\* a proper prefix of them.  The transform step occurs exactly when a
\* transform is configured, with offsets (0, 0), and the q and k of the
\* kernel call are the normalized q and k, rotated if and only if a
\* transform is configured, in v's precision.
C10_StepOrder ==
  Called =>
    /\ IsPrefix(fwd.log, Canonical)
    /\ fwd.status = "returned" => fwd.log = Canonical /\ Len(fwd.kcalls) = 1
    /\ fwd.status = "raised" => Len(fwd.log) < Len(Canonical)
    /\ \A n \in DOMAIN fwd.log :
         fwd.log[n].op = "qk_transform" =>
           layer.qk_transform # None /\ fwd.log[n].offsets = <<0, 0>>
    /\ fwd.wcalls # <<>> =>
         LET kw == fwd.wcalls[1]
             Normed(raw, m) == IF m.fn = "LayerNorm" THEN LayerNorm(raw) ELSE raw
             Turned(t) == IF args.qk_transform # None THEN Rotate(t, 0) ELSE t
         IN  /\ (layer.qk_transform # None) <=> (\E n \in DOMAIN fwd.log : fwd.log[n] = TransformStep)
             /\ kw.q = To(Turned(Normed(RawQ, layer.q_norm)), kw.v.dtype)
             /\ kw.k = To(Turned(Normed(RawK, layer.k_norm)), kw.v.dtype)
             /\ kw.q.dtype = kw.v.dtype /\ kw.k.dtype = kw.v.dtype

\* A returned call with qk_norm and a transform that changed q after the
\* normalization.
C10_Witness ==
  /\ ReturnedOk
  /\ layer.qk_norm
  /\ layer.qk_transform # None
  /\ fwd.wcalls[1].q # To(LayerNorm(RawQ), fwd.wcalls[1].v.dtype)

\* ---- C6 ---------------------------------------------------------
PackedCallMade == wcall.fn = "fused_sigmoid_flash2_attn" /\ wcall.kcalls # <<>>

\* C6: in the packed wrapper with prescale=true the Q and K slices of the
\* tensor the kernel receives are the caller's multiplied by
\* head_dim^(-0.25) and the V slice is the caller's; with prescale=false
\* the kernel receives the caller's tensor.
C6_PackedScaling ==
  PackedCallMade =>
    LET given == wcall.w[1].qkv
        passed == wcall.kcalls[1].qkv
    IN  /\ passed.data = given.data
        /\ passed.shape = given.shape
        /\ wcall.w[1].prescale =>
             /\ Unbind(passed, 1) = MulScale(Unbind(given, 1), -1)
             /\ Unbind(passed, 2) = MulScale(Unbind(given, 2), -1)
             /\ Unbind(passed, 3) = Unbind(given, 3)
        /\ ~wcall.w[1].prescale => passed = given

C6_Witness ==
  /\ PackedCallMade
  /\ wcall.w[1].prescale
  /\ wcall.w[1].qkv.shape[5] >= 2
  /\ Unbind(wcall.kcalls[1].qkv, 1) # Unbind(wcall.w[1].qkv, 1)

\* ---- C7 ---------------------------------------------------------
\* The scale on the raw dot product in a kernel invocation, in quarter
\* powers of head_dim.
LogitExp(kc) ==
  IF "qkv" \in DOMAIN kc
  THEN kc.qkv.sexp[1] + kc.qkv.sexp[2] + ScaleExp(kc.softmax_scale)
  ELSE kc.q.sexp + kc.k.sexp + ScaleExp(kc.softmax_scale)

\* C7: in both wrappers, the call made and the same call with the other
\* value of prescale put the scale head_dim^(-0.5) on the raw dot product
\* and return the same result.
C7_PrescaleEquivalent ==
  wcall.fn # None =>
    LET other == CallFlash(wcall.fn, [wcall.w[1] EXCEPT !.prescale = ~@], backend, wcall.draw)
    IN  /\ other.res = wcall.res[1]
        /\ \A n \in DOMAIN wcall.kcalls : LogitExp(wcall.kcalls[n]) = -2
        /\ \A n \in DOMAIN other.kcalls : LogitExp(other.kcalls[n]) = -2

\* An unpacked call with prescale=true that produced weights from non-zero
\* dot products with head_dim > 1.
C7_Witness ==
  /\ wcall.fn = "flash2_sigmoid_attn"
  /\ wcall.w[1].prescale
  /\ wcall.kcalls # <<>>
  /\ ~IsErr(wcall.res[1])
  /\ wcall.kcalls[1].q.sexp = -1
  /\ wcall.kcalls[1].softmax_scale = "1.0"
  /\ \E i \in DOMAIN wcall.res[1].data[1] : \E c \in DOMAIN wcall.res[1].data[1][i] :
       \E key \in DOMAIN wcall.res[1].data[1][i][c] : key.exp = -2

====
